---- MODULE Spec2Model ----
(***************************************************************************)
(* Model of tauri-plugin-automation: the HTTP server loop (server.rs), the *)
(* command dispatcher, the screenshot pipeline, the mutex-guarded          *)
(* screenshot buffer and the base64 decoder.                               *)
(*                                                                         *)
(* Text is modelled as a sequence of Unicode code points (Rust `char`s).   *)
(***************************************************************************)
EXTENDS Integers, Sequences, FiniteSets, TLC

(***************************************************************************)
(* Bounds of the model.                                                    *)
(***************************************************************************)
\* number of requests the server loop accepts in a run
MaxRequests == 2
\* number of set_screenshot_data calls in a run
MaxWrites == 2
\* length of the texts given to base64_decode on its own
MaxDecLen == 5
\* length of the command strings given to the directive builder on its own
MaxCmdLen == 3

(***************************************************************************)
(* Text helpers.                                                           *)
(***************************************************************************)
\* "data:image/png;base64," (server.rs:216) as code points
DATA_URL_PREFIX ==
    << 100, 97, 116, 97, 58, 105, 109, 97, 103, 101, 47, 112, 110, 103, 59,
       98, 97, 115, 101, 54, 52, 44 >>

\* "data:image/jpg;base64," : a data URL of another image type
JPG_URL_PREFIX ==
    << 100, 97, 116, 97, 58, 105, 109, 97, 103, 101, 47, 106, 112, 103, 59,
       98, 97, 115, 101, 54, 52, 44 >>

\* str::strip_prefix: <<TRUE, rest>> when s starts with p, else <<FALSE, <<>> >>
StripPrefix(s, p) ==
    IF Len(s) >= Len(p) /\ SubSeq(s, 1, Len(p)) = p
    THEN << TRUE, SubSeq(s, Len(p) + 1, Len(s)) >>
    ELSE << FALSE, << >> >>

\* char::is_whitespace: the code points with the White_Space property
IsWhitespace(c) ==
    \/ c \in 9..13
    \/ c \in {32, 133, 160, 5760, 8232, 8233, 8239, 8287, 12288}
    \/ c \in 8192..8202

\* chars().filter(|c| !c.is_whitespace()).collect()
RECURSIVE FilterWhitespace(_)
FilterWhitespace(s) ==
    IF s = << >> THEN << >>
    ELSE IF IsWhitespace(Head(s)) THEN FilterWhitespace(Tail(s))
    ELSE << Head(s) >> \o FilterWhitespace(Tail(s))

\* str::trim: drop leading and trailing whitespace
RECURSIVE TrimStart(_)
TrimStart(s) ==
    IF s # << >> /\ IsWhitespace(Head(s)) THEN TrimStart(Tail(s)) ELSE s

RECURSIVE TrimEnd(_)
TrimEnd(s) ==
    IF s # << >> /\ IsWhitespace(s[Len(s)])
    THEN TrimEnd(SubSeq(s, 1, Len(s) - 1)) ELSE s

Trim(s) == TrimEnd(TrimStart(s))

(***************************************************************************)
(* Base64 decoder (server.rs:238-267).                                     *)
(***************************************************************************)
\* b"ABC...XYZabc...xyz0123456789+/"
ALPHABET ==
    [ i \in 1..64 |->
        IF i <= 26 THEN 64 + i
        ELSE IF i <= 52 THEN 96 + (i - 26)
        ELSE IF i <= 62 THEN 47 + (i - 52)
        ELSE IF i = 63 THEN 43 ELSE 47 ]

\* '='
PAD_CHAR == 61

\* 2^n
RECURSIVE Pow2(_)
Pow2(n) == IF n = 0 THEN 1 ELSE 2 * Pow2(n - 1)

\* bitwise or of two naturals
RECURSIVE BitOr(_, _)
BitOr(a, b) ==
    IF a = 0 THEN b
    ELSE IF b = 0 THEN a
    ELSE (IF a % 2 = 1 \/ b % 2 = 1 THEN 1 ELSE 0) + 2 * BitOr(a \div 2, b \div 2)

\* `c as u8`: a char cast to u8 keeps the low 8 bits of the code point
CharAsU8(c) == c % 256

\* ALPHABET.iter().position(|&x| x == c as u8): 0-based index, or -1 for None
AlphabetPosition_OneBased(c) ==
    IF \E i \in 1..64 : ALPHABET[i] = CharAsU8(c)
    THEN CHOOSE i \in 1..64 : ALPHABET[i] = CharAsU8(c)
    ELSE -1

AlphabetPosition(c) ==
    IF \E i \in 1..64 : ALPHABET[i] = CharAsU8(c)
    THEN (CHOOSE i \in 1..64 : ALPHABET[i] = CharAsU8(c)) - 1
    ELSE -1

\* the comparison `bits_collected >= 8` deciding that a byte is ready
ByteReady_Off(bits) == bits > 8
ByteReady(bits) == bits >= 8

\* `buffer << 6` on a u32: the six high bits are shifted out
Shl6(b) == (b % Pow2(26)) * 64

\* one iteration of the loop body (server.rs:253-263) on a symbol of value v;
\* st = [output, buffer, bits]
DecodeSymbol_NoMask(st, v) ==
    LET buffer1 == BitOr(Shl6(st.buffer), v)
        bits1   == st.bits + 6
    IN  IF ByteReady(bits1)
        THEN LET bits2 == bits1 - 8
             IN  [ output |-> Append(st.output, (buffer1 \div Pow2(bits2)) % 256),
                   buffer |-> buffer1,
                   bits   |-> bits2 ]
        ELSE [ output |-> st.output, buffer |-> buffer1, bits |-> bits1 ]

DecodeSymbol(st, v) ==
    LET buffer1 == BitOr(Shl6(st.buffer), v)
        bits1   == st.bits + 6
    IN  IF ByteReady(bits1)
        THEN LET bits2 == bits1 - 8
             IN  [ output |-> Append(st.output, (buffer1 \div Pow2(bits2)) % 256),
                   buffer |-> buffer1 % Pow2(bits2),
                   bits   |-> bits2 ]
        ELSE [ output |-> st.output, buffer |-> buffer1, bits |-> bits1 ]

\* the for loop over chars: stops at '=', fails on a character that has no
\* position in ALPHABET
RECURSIVE DecodeLoop(_, _)
DecodeLoop(chars, st) ==
    IF chars = << >> THEN [ ok |-> TRUE, bytes |-> st.output, bad |-> 0 ]
    ELSE IF Head(chars) = PAD_CHAR
         THEN [ ok |-> TRUE, bytes |-> st.output, bad |-> 0 ]
    ELSE IF AlphabetPosition(Head(chars)) = -1
         THEN [ ok |-> FALSE, bytes |-> << >>, bad |-> Head(chars) ]
    ELSE DecodeLoop(Tail(chars), DecodeSymbol(st, AlphabetPosition(Head(chars))))

\* base64_decode: Ok(bytes) is [ok |-> TRUE, bytes], Err("Invalid base64
\* character: c") is [ok |-> FALSE, bad |-> c]
base64_decode(input) ==
    DecodeLoop(FilterWhitespace(Trim(input)),
               [ output |-> << >>, buffer |-> 0, bits |-> 0 ])

(***************************************************************************)
(* Response builder (server.rs:269-326).  A response is                    *)
(*   [status, headers, kind, json, bytes]                                  *)
(* with kind "json" (body = serialised json), "bytes" or "empty".          *)
(***************************************************************************)
PORT == 9876

ALLOW_ORIGIN  == << "Access-Control-Allow-Origin", "*" >>
ALLOW_METHODS == << "Access-Control-Allow-Methods", "GET, POST, OPTIONS" >>
ALLOW_HEADERS == << "Access-Control-Allow-Headers", "Content-Type" >>

\* no JSON document (the body of a non-JSON response)
NoJson == [ t |-> "none" ]

\* serde_json::json!({ "error": format!(msg, arg) }): arg is the text put in
\* the `{}` hole as code points, << >> when the message has no hole or the
\* hole holds an error text of the platform
ErrorJson(msg, arg) == [ t |-> "error", error |-> msg, arg |-> arg ]

json_response_with_status(data, status) ==
    [ status  |-> status,
      headers |-> { << "Content-Type", "application/json" >>,
                    ALLOW_ORIGIN, ALLOW_METHODS, ALLOW_HEADERS },
      kind    |-> "json",
      json    |-> data,
      bytes   |-> << >> ]

json_response(data) == json_response_with_status(data, 200)

png_response(data) ==
    [ status  |-> 200,
      headers |-> { << "Content-Type", "image/png" >>, ALLOW_ORIGIN },
      kind    |-> "bytes",
      json    |-> NoJson,
      bytes   |-> data ]

cors_response ==
    [ status  |-> 204,
      headers |-> { ALLOW_ORIGIN, ALLOW_METHODS, ALLOW_HEADERS },
      kind    |-> "empty",
      json    |-> NoJson,
      bytes   |-> << >> ]

\* the value of `response` while no response has been built
NoResponse ==
    [ status |-> 0, headers |-> {}, kind |-> "none", json |-> NoJson,
      bytes |-> << >> ]

HealthJson == [ t |-> "health", status |-> "ok", port |-> PORT, version |-> "1.0.0" ]

NotFoundJson == ErrorJson("Not found", << >>)

AckJson(cmd) ==
    [ t |-> "ack", success |-> TRUE, message |-> "Command executed", command |-> cmd ]

(***************************************************************************)
(* Routing (server.rs:47-79): the match on (method, url), first arm wins.  *)
(***************************************************************************)
Route_PathOnly(method, url) ==
    IF url = "/automation/health" THEN "health"
    ELSE IF url = "/automation/execute" THEN "execute"
    ELSE IF url = "/automation/screenshot" THEN "screenshot"
    ELSE IF method = "OPTIONS" THEN "cors"
    ELSE "not_found"

Route(method, url) ==
    IF method = "GET" /\ url = "/automation/health" THEN "health"
    ELSE IF method = "POST" /\ url = "/automation/execute" THEN "execute"
    ELSE IF method = "GET" /\ url = "/automation/screenshot" THEN "screenshot"
    ELSE IF method = "OPTIONS" THEN "cors"
    ELSE "not_found"

(***************************************************************************)
(* Request bodies and the payload checks of handle_execute                 *)
(* (server.rs:92-122).  A body is                                          *)
(*   [read, parse, top, command, args]                                     *)
(* read: whether read_to_string succeeds; parse: whether serde_json        *)
(* accepts the text; top: the kind of the top-level JSON value; command    *)
(* and args: << >> when the key is absent, else << v >> with v a JSON      *)
(* value [t, s] (t its type, s its text: the string for a string, the      *)
(* serialisation otherwise).                                               *)
(***************************************************************************)
JStr(s)  == [ t |-> "string", s |-> s ]
JNum(s)  == [ t |-> "number", s |-> s ]
JObj(s)  == [ t |-> "object", s |-> s ]
JNull    == [ t |-> "null", s |-> "null" ]

MkBody(read, parse, top, command, args) ==
    [ read |-> read, parse |-> parse, top |-> top, command |-> command,
      args |-> args ]

\* a body whose stream fails, or is not UTF-8
BodyUnreadable == MkBody("err", "err", "none", << >>, << >>)
\* `not json`
BodyNotJson    == MkBody("ok", "err", "none", << >>, << >>)
\* `[]`
BodyArray      == MkBody("ok", "ok", "array", << >>, << >>)
\* `{}`
BodyEmptyObj   == MkBody("ok", "ok", "object", << >>, << >>)
\* `{"command":7,"args":{"selector":"#go"}}`
BodyNumCommand == MkBody("ok", "ok", "object", << JNum("7") >>,
                         << JObj("{\"selector\":\"#go\"}") >>)
\* `{"command":null}`
BodyNullCommand == MkBody("ok", "ok", "object", << JNull >>, << >>)
\* `{"command":"click","args":{"selector":"#go"}}`
BodyClickArgs  == MkBody("ok", "ok", "object", << JStr("click") >>,
                         << JObj("{\"selector\":\"#go\"}") >>)
\* `{"command":"reload"}`
BodyReload     == MkBody("ok", "ok", "object", << JStr("reload") >>, << >>)
\* `{"command":""}`
BodyEmptyCommand == MkBody("ok", "ok", "object", << JStr("") >>, << >>)
\* a request without a body
BodyNone       == MkBody("ok", "err", "none", << >>, << >>)

Bodies ==
    { BodyUnreadable, BodyNotJson, BodyArray, BodyEmptyObj, BodyNumCommand,
      BodyNullCommand, BodyClickArgs, BodyReload, BodyEmptyCommand }

\* payload.get("command").and_then(|v| v.as_str()): << s >> or << >>
GetCommand_Lenient(body) ==
    IF body.top = "object" /\ body.command # << >>
    THEN << body.command[1].s >> ELSE << >>

GetCommand(body) ==
    IF body.top = "object" /\ body.command # << >> /\ body.command[1].t = "string"
    THEN << body.command[1].s >> ELSE << >>

\* serde_json::to_string(&payload.get("args").cloned().unwrap_or(json!({})))
ArgsJson(body) ==
    IF body.top = "object" /\ body.args # << >> THEN body.args[1].s ELSE "{}"

\* status of the response to a body serde_json rejects
InvalidJsonResponse_500 ==
    json_response_with_status(ErrorJson("Invalid JSON: {}", << >>), 500)
InvalidJsonResponse ==
    json_response_with_status(ErrorJson("Invalid JSON: {}", << >>), 400)

\* lines 92-120: the early returns of handle_execute before the window is
\* looked up; [ok |-> FALSE, resp] or [ok |-> TRUE, command, args_json]
ExecutePayload(body) ==
    IF body.read = "err"
    THEN [ ok |-> FALSE, command |-> "", args_json |-> "",
           resp |-> json_response_with_status(
                        ErrorJson("Failed to read body: {}", << >>), 400) ]
    ELSE IF body.parse = "err"
    THEN [ ok |-> FALSE, command |-> "", args_json |-> "",
           resp |-> InvalidJsonResponse ]
    ELSE IF GetCommand(body) = << >>
    THEN [ ok |-> FALSE, command |-> "", args_json |-> "",
           resp |-> json_response_with_status(
                        ErrorJson("Missing 'command' field", << >>), 400) ]
    ELSE [ ok |-> TRUE, command |-> GetCommand(body)[1],
           args_json |-> ArgsJson(body), resp |-> NoResponse ]

(***************************************************************************)
(* Screenshot payloads the delivery callback may write.                    *)
(***************************************************************************)
\* data:image/png;base64,QUJD  (bytes 65 66 67)
PngABC  == DATA_URL_PREFIX \o << 81, 85, 74, 68 >>
\* data:image/png;base64,QUI=  (bytes 65 66)
PngAB   == DATA_URL_PREFIX \o << 81, 85, 73, 61 >>
\* data:image/png;base64,QQ==  (byte 65)
PngA    == DATA_URL_PREFIX \o << 81, 81, 61, 61 >>
\* data:image/jpg;base64,QQ==  (not a PNG data URL)
JpgA    == JPG_URL_PREFIX \o << 81, 81, 61, 61 >>
\* data:image/png;base64,Q*JD  ('*' is not a base64 symbol)
PngBad  == DATA_URL_PREFIX \o << 81, 42, 74, 68 >>

DataValues == { PngABC, PngAB, PngA, JpgA, PngBad }

(***************************************************************************)
(* State.                                                                  *)
(***************************************************************************)
VARIABLES
    server,      \* "starting", "listening" or "bind_failed" (server.rs:31-37)
    pc,          \* position of the HTTP thread
    request,     \* the request being handled: [method, url, body]
    command,     \* handle_execute's local `command`
    args_json,   \* handle_execute's local `args_json`
    taken,       \* the Option<String> take_screenshot_data returns
    response,    \* the response built for the request
    counters,    \* [accepted, built, written]: requests accepted, responses
                 \* built, response writes attempted
    fx,          \* what the current request has done so far: match arms
                 \* taken (how many, which), get_window calls and the result,
                 \* window.eval calls, directives handed over, sleeps, takes
    last_write,  \* outcome of the last request.respond: "none", "ok", "failed"
    webq,        \* directives handed to the web view and not yet run
    lastResult,  \* window.__TAURI_AUTOMATION__._lastResult
    lock,        \* holder of the SCREENSHOT_DATA mutex: "free", "http", "cb"
    slot,        \* SCREENSHOT_DATA: << >> (None) or << [id, data] >> (Some)
    cb_pc,       \* position of the delivery callback's thread
    cb_data,     \* the argument of the running set_screenshot_data call
    writes,      \* set_screenshot_data calls started
    hist,        \* completed buffer operations, in order: [op, id]
    dec,         \* a run of base64_decode on its own: [phase, input, chars,
                 \* st, k, result]
    dir          \* a directive of handle_execute on its own: [phase, command,
                 \* args, script, rest, lit, result]

vars ==
    << server, pc, request, command, args_json, taken, response, counters, fx,
       last_write, webq, lastResult, lock, slot, cb_pc,
       cb_data, writes, hist, dec, dir >>

http_vars == << pc, request, command, args_json, taken, response, counters, fx,
                last_write >>
web_vars  == << webq, lastResult >>
buf_vars  == << lock, slot, hist >>
cb_vars   == << cb_pc, cb_data, writes >>
fn_vars   == << dec, dir >>

Methods == { "GET", "POST", "OPTIONS", "PUT" }

Urls ==
    { "/automation/health", "/automation/execute", "/automation/screenshot",
      "/automation/health?x=1", "/nonexistent" }

\* the requests a client can send; the body is read by handle_execute alone,
\* so it varies only where the request reaches that handler
Requests ==
    { [ method |-> m, url |-> u, body |-> b ] :
        m \in Methods, u \in Urls, b \in {BodyNone} }
    \cup
    { [ method |-> "POST", url |-> "/automation/execute", body |-> b ] :
        b \in Bodies }

NoRequest == [ method |-> "", url |-> "", body |-> BodyNone ]

NoFx == [ handlers |-> 0, handler |-> "none", lookups |-> 0, window |-> "unknown", evals |-> 0,
          handed |-> 0, sleeps |-> 0, takes |-> 0 ]

None == << >>
Some(x) == << x >>

\* the decoder's locals at line 244-246: output, buffer, bits_collected
DecodeStart == [ output |-> << >>, buffer |-> 0, bits |-> 0 ]

\* no run of base64_decode / no directive on its own
NoDec == [ phase |-> "off", input |-> << >>, chars |-> << >>,
           st |-> DecodeStart, k |-> 0,
           result |-> [ ok |-> FALSE, bytes |-> << >>, bad |-> 0 ] ]
NoDir == [ phase |-> "off", command |-> << >>, args |-> << >>,
           script |-> << >>, rest |-> << >>, lit |-> << >>,
           result |-> [ kind |-> "none", arg1 |-> << >>, arg2 |-> << >> ] ]

\* the server, the buffer, the web view and the callback before start_server
\* has bound its port
ServerInit ==
    /\ server = "starting"
    /\ pc = "accept"
    /\ request = NoRequest
    /\ command = ""
    /\ args_json = ""
    /\ taken = None
    /\ response = NoResponse
    /\ counters = [ accepted |-> 0, built |-> 0, written |-> 0 ]
    /\ fx = NoFx
    /\ last_write = "none"
    /\ webq = << >>
    /\ lastResult = "none"
    /\ lock = "free"
    /\ slot = None
    /\ cb_pc = "idle"
    /\ cb_data = << >>
    /\ writes = 0
    /\ hist = << >>

Init ==
    /\ ServerInit
    /\ dec = NoDec
    /\ dir = NoDir

(***************************************************************************)
(* The SCREENSHOT_DATA mutex and the two buffer operations                 *)
(* (server.rs:11-25).                                                      *)
(***************************************************************************)
\* Mutex::lock blocks until no thread holds the mutex
LockAvailable_NoMutex == TRUE
LockAvailable == lock = "free"

\* the id of the next write: writes are numbered in the order they are stored
NextWriteId ==
    1 + Cardinality({ i \in DOMAIN hist : hist[i].op = "set" })

\* `*guard = Some(data)`: the new content of the slot
Stored_KeepFirst(old, new) == IF old = None THEN Some(new) ELSE old
Stored(old, new) == Some(new)

\* set_screenshot_data(d) is called by the delivery callback, from its own
\* thread, and gets the mutex (line 14); a call that finds the mutex held
\* waits, which shows as the call not having started
CbLock(d) ==
    /\ cb_pc = "idle"
    /\ writes < MaxWrites
    /\ LockAvailable
    /\ lock' = "cb"
    /\ cb_pc' = "store"
    /\ cb_data' = d
    /\ writes' = writes + 1
    /\ UNCHANGED << fn_vars, server, http_vars, web_vars, slot, hist >>

\* line 15-16: *guard = Some(data); the guard is dropped
CbStore ==
    /\ cb_pc = "store"
    /\ slot' = Stored(slot, [ id |-> NextWriteId, data |-> cb_data ])
    /\ hist' = Append(hist, [ op |-> "set", id |-> NextWriteId ])
    /\ lock' = "free"
    /\ cb_pc' = "idle"
    /\ cb_data' = << >>
    /\ UNCHANGED << fn_vars, server, http_vars, web_vars, writes >>

(***************************************************************************)
(* The host and the web view (external collaborators).                     *)
(***************************************************************************)
\* the script of handle_execute (server.rs:137-154)
ExecuteDirective(cmd, args) ==
    [ kind |-> "execute", command |-> cmd, args_json |-> args ]

\* the script of handle_screenshot (server.rs:188-200)
CaptureDirective == [ kind |-> "capture", command |-> "", args_json |-> "" ]

\* the web view runs a directive in a page where window.__TAURI_AUTOMATION__
\* is undefined (not installed yet, or lost on a reload): the script logs
\* 'Not initialized' and returns (server.rs:140-143, 190-193)
WebViewNotInitialized ==
    /\ webq # << >>
    /\ webq' = Tail(webq)
    /\ UNCHANGED << fn_vars, server, http_vars, lastResult,
                    buf_vars, cb_vars >>

\* the web view runs an execute directive: execute() resolves or throws
\* (server.rs:144-149)
WebViewExecute(outcome) ==
    /\ webq # << >>
    /\ Head(webq).kind = "execute"
    /\ webq' = Tail(webq)
    /\ lastResult' = outcome
    /\ UNCHANGED << fn_vars, server, http_vars, buf_vars, cb_vars >>

\* the web view runs a capture directive: captureAndSend() is started, or
\* throws (server.rs:194-198); whether and when it delivers a payload is the
\* delivery callback's step (CbLock)
WebViewCapture ==
    /\ webq # << >>
    /\ Head(webq).kind = "capture"
    /\ webq' = Tail(webq)
    /\ UNCHANGED << fn_vars, server, http_vars, lastResult,
                    buf_vars, cb_vars >>

(***************************************************************************)
(* start_server (server.rs:28-85).                                         *)
(***************************************************************************)
\* lines 31-37: Server::http(&addr) succeeds, or fails and start_server returns
Bind(ok) ==
    /\ server = "starting"
    /\ server' = IF ok THEN "listening" ELSE "bind_failed"
    /\ UNCHANGED << fn_vars, http_vars, web_vars, buf_vars, cb_vars >>

\* line 41-45: the loop takes the next request
Accept_Unbound(r) ==
    /\ server # "starting"
    /\ pc = "accept"
    /\ counters.accepted < MaxRequests
    /\ request' = r
    /\ counters' = [ counters EXCEPT !.accepted = @ + 1 ]
    /\ pc' = "route"
    /\ UNCHANGED << fn_vars, server, command, args_json, taken, response,
                    fx, last_write, web_vars, buf_vars, cb_vars >>

Accept(r) ==
    /\ server = "listening"
    /\ pc = "accept"
    /\ counters.accepted < MaxRequests
    /\ request' = r
    /\ counters' = [ counters EXCEPT !.accepted = @ + 1 ]
    /\ pc' = "route"
    /\ UNCHANGED << fn_vars, server, command, args_json, taken, response,
                    fx, last_write, web_vars, buf_vars, cb_vars >>

\* a handler returns resp: `let response = ...` (line 47)
Return(resp) ==
    /\ response' = resp
    /\ counters' = [ counters EXCEPT !.built = @ + 1 ]
    /\ pc' = "respond"

\* lines 49-55
RouteHealth ==
    /\ pc = "route"
    /\ Route(request.method, request.url) = "health"
    /\ fx' = [ fx EXCEPT !.handlers = @ + 1, !.handler = "health" ]
    /\ Return(json_response(HealthJson))
    /\ UNCHANGED << fn_vars, server, request, command, args_json, taken,
                    last_write, web_vars, buf_vars, cb_vars >>

\* lines 58-60: handle_execute is entered
RouteExecute ==
    /\ pc = "route"
    /\ Route(request.method, request.url) = "execute"
    /\ fx' = [ fx EXCEPT !.handlers = @ + 1, !.handler = "execute" ]
    /\ pc' = "ex_payload"
    /\ UNCHANGED << fn_vars, server, request, command, args_json, taken,
                    response, counters, last_write, web_vars, buf_vars, cb_vars >>

\* lines 63-65: handle_screenshot is entered
RouteScreenshot ==
    /\ pc = "route"
    /\ Route(request.method, request.url) = "screenshot"
    /\ fx' = [ fx EXCEPT !.handlers = @ + 1, !.handler = "screenshot" ]
    /\ pc' = "ss_window"
    /\ UNCHANGED << fn_vars, server, request, command, args_json, taken,
                    response, counters, last_write, web_vars, buf_vars, cb_vars >>

\* lines 68-70
RouteCors ==
    /\ pc = "route"
    /\ Route(request.method, request.url) = "cors"
    /\ fx' = [ fx EXCEPT !.handlers = @ + 1, !.handler = "cors" ]
    /\ Return(cors_response)
    /\ UNCHANGED << fn_vars, server, request, command, args_json, taken,
                    last_write, web_vars, buf_vars, cb_vars >>

\* lines 73-78
RouteNotFound ==
    /\ pc = "route"
    /\ Route(request.method, request.url) = "not_found"
    /\ fx' = [ fx EXCEPT !.handlers = @ + 1, !.handler = "not_found" ]
    /\ Return(json_response_with_status(NotFoundJson, 404))
    /\ UNCHANGED << fn_vars, server, request, command, args_json, taken,
                    last_write, web_vars, buf_vars, cb_vars >>

\* the position of the loop after request.respond returned ok or an error
AfterRespond_Break(ok) == IF ok THEN "accept" ELSE "stopped"
AfterRespond(ok) == "accept"

\* lines 81-84: the response is written; a failure is logged
Respond(ok) ==
    /\ pc = "respond"
    /\ counters' = [ counters EXCEPT !.written = @ + 1 ]
    /\ last_write' = IF ok THEN "ok" ELSE "failed"
    /\ pc' = AfterRespond(ok)
    /\ request' = NoRequest
    /\ command' = ""
    /\ args_json' = ""
    /\ taken' = None
    /\ response' = NoResponse
    /\ fx' = NoFx
    /\ UNCHANGED << fn_vars, server, web_vars, buf_vars, cb_vars >>

(***************************************************************************)
(* handle_execute (server.rs:88-173).                                      *)
(***************************************************************************)
\* lines 92-122: read the body, parse it, extract command and args
ExPayload ==
    /\ pc = "ex_payload"
    /\ LET p == ExecutePayload(request.body)
       IN  IF p.ok
           THEN /\ command' = p.command
                /\ args_json' = p.args_json
                /\ pc' = "ex_window"
                /\ UNCHANGED << response, counters >>
           ELSE /\ Return(p.resp)
                /\ UNCHANGED << command, args_json >>
    /\ UNCHANGED << fn_vars, server, request, taken, fx, last_write,
                    web_vars, buf_vars, cb_vars >>

WindowNotFound ==
    json_response_with_status(ErrorJson("Main window not found", << >>), 500)

\* lines 125-133: app_handle.get_window("main") returns Some (found) or None
ExGetWindow(found) ==
    /\ pc = "ex_window"
    /\ fx' = [ fx EXCEPT !.lookups = @ + 1,
                         !.window = IF found THEN "found" ELSE "absent" ]
    /\ IF found
       THEN pc' = "ex_eval" /\ UNCHANGED << response, counters >>
       ELSE Return(WindowNotFound)
    /\ UNCHANGED << fn_vars, server, request, command, args_json, taken,
                    last_write, web_vars, buf_vars, cb_vars >>

\* lines 136-162: build the script and hand it to the web view; window.eval
\* returns Ok or Err
ExEval(ok) ==
    /\ pc = "ex_eval"
    /\ IF ok
       THEN /\ webq' = Append(webq, ExecuteDirective(command, args_json))
            /\ fx' = [ fx EXCEPT !.evals = @ + 1, !.handed = @ + 1 ]
            /\ pc' = "ex_sleep"
            /\ UNCHANGED << response, counters >>
       ELSE /\ fx' = [ fx EXCEPT !.evals = @ + 1 ]
            /\ Return(json_response_with_status(
                          ErrorJson("Script execution failed: {}", << >>), 500))
            /\ UNCHANGED webq
    /\ UNCHANGED << fn_vars, server, request, command, args_json, taken,
                    last_write, lastResult, buf_vars, cb_vars >>

\* line 165: sleep 100 ms
ExSleep ==
    /\ pc = "ex_sleep"
    /\ fx' = [ fx EXCEPT !.sleeps = @ + 1 ]
    /\ pc' = "ex_ack"
    /\ UNCHANGED << fn_vars, server, request, command, args_json, taken,
                    response, counters, last_write, web_vars, buf_vars, cb_vars >>

\* the command echoed in the acknowledgement
EchoedCommand_Blank(cmd) == ""
EchoedCommand(cmd) == cmd

\* lines 168-172
ExAck_Drain ==
    /\ pc = "ex_ack"
    /\ Return(json_response(AckJson(EchoedCommand(command))))
    /\ slot' = None
    /\ UNCHANGED << fn_vars, server, request, command, args_json, taken, fx,
                    last_write, web_vars, lock, hist, cb_vars >>

ExAck ==
    /\ pc = "ex_ack"
    /\ Return(json_response(AckJson(EchoedCommand(command))))
    /\ UNCHANGED << fn_vars, server, request, command, args_json, taken, fx,
                    last_write, web_vars, buf_vars, cb_vars >>

(***************************************************************************)
(* handle_screenshot (server.rs:176-235).                                  *)
(***************************************************************************)
\* lines 177-185
SsGetWindow(found) ==
    /\ pc = "ss_window"
    /\ fx' = [ fx EXCEPT !.lookups = @ + 1,
                         !.window = IF found THEN "found" ELSE "absent" ]
    /\ IF found
       THEN pc' = "ss_eval" /\ UNCHANGED << response, counters >>
       ELSE Return(WindowNotFound)
    /\ UNCHANGED << fn_vars, server, request, command, args_json, taken,
                    last_write, web_vars, buf_vars, cb_vars >>

\* lines 188-207
SsEval_GoOn(ok) ==
    /\ pc = "ss_eval"
    /\ webq' = IF ok THEN Append(webq, CaptureDirective) ELSE webq
    /\ fx' = [ fx EXCEPT !.evals = @ + 1,
                         !.handed = IF ok THEN @ + 1 ELSE @ ]
    /\ pc' = "ss_sleep"
    /\ UNCHANGED << fn_vars, server, request, command, args_json, taken,
                    response, counters, last_write, lastResult, buf_vars,
                    cb_vars >>

SsEval_ClearFirst(ok) ==
    /\ pc = "ss_eval"
    /\ slot' = None
    /\ IF ok
       THEN /\ webq' = Append(webq, CaptureDirective)
            /\ fx' = [ fx EXCEPT !.evals = @ + 1, !.handed = @ + 1 ]
            /\ pc' = "ss_sleep"
            /\ UNCHANGED << response, counters >>
       ELSE /\ fx' = [ fx EXCEPT !.evals = @ + 1 ]
            /\ Return(json_response_with_status(
                          ErrorJson("Screenshot request failed: {}", << >>), 500))
            /\ UNCHANGED webq
    /\ UNCHANGED << fn_vars, server, request, command, args_json, taken,
                    last_write, lastResult, lock, hist, cb_vars >>

SsEval(ok) ==
    /\ pc = "ss_eval"
    /\ IF ok
       THEN /\ webq' = Append(webq, CaptureDirective)
            /\ fx' = [ fx EXCEPT !.evals = @ + 1, !.handed = @ + 1 ]
            /\ pc' = "ss_sleep"
            /\ UNCHANGED << response, counters >>
       ELSE /\ fx' = [ fx EXCEPT !.evals = @ + 1 ]
            /\ Return(json_response_with_status(
                          ErrorJson("Screenshot request failed: {}", << >>), 500))
            /\ UNCHANGED webq
    /\ UNCHANGED << fn_vars, server, request, command, args_json, taken,
                    last_write, lastResult, buf_vars, cb_vars >>

\* line 211: sleep 2000 ms
SsSleep ==
    /\ pc = "ss_sleep"
    /\ fx' = [ fx EXCEPT !.sleeps = @ + 1 ]
    /\ pc' = "take_lock"
    /\ UNCHANGED << fn_vars, server, request, command, args_json, taken,
                    response, counters, last_write, web_vars, buf_vars, cb_vars >>

\* take_screenshot_data, line 20: SCREENSHOT_DATA.lock()
TakeLock ==
    /\ pc = "take_lock"
    /\ LockAvailable
    /\ lock' = "http"
    /\ pc' = "take_read"
    /\ UNCHANGED << fn_vars, server, request, command, args_json, taken,
                    response, counters, fx, last_write, web_vars, slot, hist,
                    cb_vars >>

\* line 21, guard.take() = mem::replace(&mut *guard, None): the old content is
\* read out ...
TakeRead ==
    /\ pc = "take_read"
    /\ taken' = slot
    /\ pc' = "take_clear"
    /\ UNCHANGED << fn_vars, server, request, command, args_json, response,
                    counters, fx, last_write, web_vars, buf_vars, cb_vars >>

\* the content of the slot once guard.take() has run
Cleared_Peek(old) == old
Cleared(old) == None

\* ... and None is written in its place; the value is returned and the guard
\* dropped (lines 21-25)
TakeClear ==
    /\ pc = "take_clear"
    /\ slot' = Cleared(slot)
    /\ lock' = "free"
    /\ hist' = Append(hist, [ op |-> "take",
                               id |-> IF taken = None THEN 0 ELSE taken[1].id ])
    /\ fx' = [ fx EXCEPT !.takes = @ + 1 ]
    /\ pc' = "ss_result"
    /\ UNCHANGED << fn_vars, server, request, command, args_json, taken,
                    response, counters, last_write, web_vars, cb_vars >>

ScreenshotUnavailable ==
    json_response_with_status(
        ErrorJson("Screenshot not available. Make sure html2canvas is loaded.",
                  << >>), 500)

\* the response to a drained value that is None
EmptyResponse_Blank == png_response(<< >>)
EmptyResponse == ScreenshotUnavailable

\* data_url.strip_prefix("data:image/png;base64,") (line 216)
PngPayload_AnyType(data_url) ==
    IF StripPrefix(data_url, DATA_URL_PREFIX)[1]
    THEN StripPrefix(data_url, DATA_URL_PREFIX)
    ELSE StripPrefix(data_url, JPG_URL_PREFIX)
PngPayload(data_url) == StripPrefix(data_url, DATA_URL_PREFIX)

\* lines 214-234: the response for the drained value t
ScreenshotResponse(t) ==
    IF t # None
    THEN LET sp == PngPayload(t[1].data)
         IN  IF sp[1]
             THEN LET r == base64_decode(sp[2])
                  IN  IF r.ok
                      THEN png_response(r.bytes)
                      ELSE json_response_with_status(
                               ErrorJson("Base64 decode failed: Invalid base64 character: {}",
                                         << r.bad >>), 500)
             ELSE ScreenshotUnavailable
    ELSE EmptyResponse

SsResult ==
    /\ pc = "ss_result"
    /\ Return(ScreenshotResponse(taken))
    /\ UNCHANGED << fn_vars, server, request, command, args_json, taken, fx,
                    last_write, web_vars, buf_vars, cb_vars >>

(***************************************************************************)
(* Specification.                                                          *)
(***************************************************************************)
Next ==
    \/ \E ok \in BOOLEAN : Bind(ok)
    \/ \E r \in Requests : Accept(r)
    \/ RouteHealth
    \/ RouteExecute
    \/ RouteScreenshot
    \/ RouteCors
    \/ RouteNotFound
    \/ ExPayload
    \/ \E found \in BOOLEAN : ExGetWindow(found)
    \/ \E ok \in BOOLEAN : ExEval(ok)
    \/ ExSleep
    \/ ExAck
    \/ \E found \in BOOLEAN : SsGetWindow(found)
    \/ \E ok \in BOOLEAN : SsEval(ok)
    \/ SsSleep
    \/ TakeLock
    \/ TakeRead
    \/ TakeClear
    \/ SsResult
    \/ \E ok \in BOOLEAN : Respond(ok)
    \/ \E d \in DataValues : CbLock(d)
    \/ CbStore
    \/ WebViewNotInitialized
    \/ \E o \in {"success", "failure"} : WebViewExecute(o)
    \/ WebViewCapture

Spec == Init /\ [][Next]_vars

(***************************************************************************)
(* Properties of the screenshot buffer.                                    *)
(***************************************************************************)
\* positions of hist holding a take / a set
Takes == { k \in DOMAIN hist : hist[k].op = "take" }
Sets  == { k \in DOMAIN hist : hist[k].op = "set" }

\* id of the latest write stored before position k (0 when there is none)
LatestWriteBefore(k) ==
    Cardinality({ j \in Sets : j < k })

\* ids of the writes that takes before position k returned
ReturnedBefore(k) ==
    { hist[j].id : j \in { i \in Takes : i < k } } \ {0}

\* what a take at position k has to return: the latest write, unless there
\* is none or an earlier take returned it
ExpectedTake(k) ==
    IF LatestWriteBefore(k) \in ReturnedBefore(k) THEN 0 ELSE LatestWriteBefore(k)

\* C1 (state part): every take returned nothing or the latest write that no
\* earlier take returned, and no write was returned by two takes
TakesLinearizable ==
    /\ \A k \in Takes : hist[k].id = ExpectedTake(k)
    /\ \A j, k \in Takes : (j < k /\ hist[j].id # 0) => hist[j].id # hist[k].id

\* C1: under every interleaving of set_screenshot_data and
\* take_screenshot_data, take is atomic with respect to set: each written
\* value is returned by at most one take, a take returns nothing or the
\* latest write no earlier take returned, and the slot is empty right after
\* every take.
C1_TakeAtomic ==
    /\ []TakesLinearizable
    /\ [][(pc = "take_clear" /\ pc' # "take_clear") => slot' = None]_vars

\* C1 witness: two writes were each returned by a take, the second write
\* stored after the first take
C1_Witness ==
    /\ Len(hist) >= 4
    /\ hist[1].op = "set" /\ hist[2] = [ op |-> "take", id |-> 1 ]
    /\ hist[3].op = "set" /\ hist[4] = [ op |-> "take", id |-> 2 ]

\* C2: last-write-wins: a take that follows two successive writes returns
\* the second one, the take after it (no write in between) returns empty,
\* and no later take returns the first one.
C2_LastWriteWins ==
    \A k \in Takes :
        (k >= 3 /\ hist[k - 1].op = "set" /\ hist[k - 2].op = "set") =>
            /\ hist[k].id = hist[k - 1].id
            /\ \A j \in Takes : j > k => hist[j].id # hist[k - 2].id
            /\ (k + 1 \in Takes) => hist[k + 1].id = 0

\* C2 witness: set, set, take, take with the second write returned by the
\* first take and nothing by the second, which has built its response
C2_Witness ==
    /\ Len(hist) = 4
    /\ hist[1].op = "set" /\ hist[2].op = "set"
    /\ hist[3] = [ op |-> "take", id |-> 2 ]
    /\ hist[4] = [ op |-> "take", id |-> 0 ]
    /\ pc = "respond"

(***************************************************************************)
(* Properties of handle_execute.                                           *)
(***************************************************************************)
\* the request is a POST /automation/execute
IsExecuteRequest ==
    request.method = "POST" /\ request.url = "/automation/execute"

\* the body can be read and is valid JSON
WellFormed(body) == body.read = "ok" /\ body.parse = "ok"

\* the body is JSON with a `command` that is a string
HasStringCommand(body) ==
    /\ WellFormed(body)
    /\ body.top = "object"
    /\ body.command # << >>
    /\ body.command[1].t = "string"

\* the handler's position is past the payload checks of the request
PastPayload == pc \notin { "accept", "route", "ex_payload" }

\* C3: a POST /automation/execute whose body has no `command`, or one that is
\* not a string, is answered 400 with an error naming the command field,
\* before any side effect: no window lookup, no directive handed over, no
\* sleep, no take of the Screenshot Buffer.
C3_MissingCommandRejected ==
    (IsExecuteRequest /\ WellFormed(request.body)
        /\ ~HasStringCommand(request.body) /\ PastPayload) =>
        /\ pc = "respond"
        /\ response.status = 400
        /\ response.json = ErrorJson("Missing 'command' field", << >>)
        /\ fx.lookups = 0 /\ fx.evals = 0 /\ fx.handed = 0
        /\ fx.sleeps = 0 /\ fx.takes = 0
        /\ lock # "http"

\* C3 witness: `{"command":7,...}` was answered 400 while the buffer holds a
\* value
C3_Witness ==
    /\ pc = "respond"
    /\ IsExecuteRequest
    /\ request.body = BodyNumCommand
    /\ response.status = 400
    /\ slot # None

\* C4: for a well-formed body with a string command, when the main window
\* exists and the handoff succeeds, the response is 200 with success = true,
\* message "Command executed" and the request's own command, whatever the
\* web view does with the directive.
C4_AckRegardless ==
    (pc = "respond" /\ IsExecuteRequest /\ HasStringCommand(request.body)
        /\ fx.window = "found" /\ fx.handed = 1) =>
        /\ response.status = 200
        /\ response.kind = "json"
        /\ response.json = [ t |-> "ack", success |-> TRUE,
                             message |-> "Command executed",
                             command |-> request.body.command[1].s ]

\* C4 witness: the first request is acknowledged with 200 although the web
\* view ran its directive during the sleep and execute() threw
C4_Witness ==
    /\ pc = "respond"
    /\ counters.accepted = 1
    /\ request.body = BodyClickArgs
    /\ response.status = 200
    /\ lastResult = "failure"
    /\ webq = << >>

\* C5: handle_execute maps each failure to one status in a fixed order:
\* unreadable body or invalid JSON 400, then missing or non-string command
\* 400, then absent main window 500, then handoff failure 500; a malformed
\* request never reaches the window lookup (so it gets 400 whatever the
\* window's state), and 500 is returned only for a valid body.
C5_StatusOrder ==
    (pc = "respond" /\ IsExecuteRequest) =>
        LET b == request.body
            e == response.json
        IN  /\ (b.read = "err") =>
                   (response.status = 400 /\ e.error = "Failed to read body: {}")
            /\ (b.read = "ok" /\ b.parse = "err") =>
                   (response.status = 400 /\ e.error = "Invalid JSON: {}")
            /\ (WellFormed(b) /\ ~HasStringCommand(b)) =>
                   (response.status = 400 /\ e.error = "Missing 'command' field")
            /\ ~HasStringCommand(b) => (fx.lookups = 0 /\ fx.evals = 0)
            /\ (HasStringCommand(b) /\ fx.window = "absent") =>
                   (response.status = 500 /\ e.error = "Main window not found"
                    /\ fx.evals = 0)
            /\ (HasStringCommand(b) /\ fx.window = "found" /\ fx.handed = 0) =>
                   (response.status = 500 /\ fx.evals = 1
                    /\ e.error = "Script execution failed: {}")
            /\ response.status = 500 => HasStringCommand(b)
            /\ response.status \in { 200, 400, 500 }

\* C5 witness: a valid body answered 500 because the handoff failed
C5_Witness ==
    /\ pc = "respond"
    /\ IsExecuteRequest
    /\ HasStringCommand(request.body)
    /\ fx.window = "found"
    /\ fx.evals = 1 /\ fx.handed = 0
    /\ response.status = 500

(***************************************************************************)
(* Properties of the server loop and of routing.                           *)
(***************************************************************************)
HandlerPcs ==
    { "route", "ex_payload", "ex_window", "ex_eval", "ex_sleep", "ex_ack",
      "ss_window", "ss_eval", "ss_sleep", "take_lock", "take_read",
      "take_clear", "ss_result" }

\* C6 (state part): responses built and writes attempted keep step with the
\* requests accepted
LoopCounts ==
    /\ pc \in { "accept", "respond" } \cup HandlerPcs
    /\ pc = "accept" =>
           (counters.built = counters.accepted
            /\ counters.written = counters.accepted)
    /\ pc \in HandlerPcs =>
           (counters.built = counters.accepted - 1
            /\ counters.written = counters.accepted - 1)
    /\ pc = "respond" =>
           (counters.built = counters.accepted
            /\ counters.written = counters.accepted - 1)

\* C6: the loop handles requests one at a time: each accepted request gets
\* exactly one response built and exactly one write attempt, made before the
\* next request is accepted, and a failed write leaves the loop running (the
\* step after the write attempt, failed or not, is back at accepting).
C6_OneAtATime ==
    /\ []LoopCounts
    /\ [][counters'.accepted # counters.accepted =>
              (pc = "accept" /\ counters.written = counters.accepted)]_vars
    /\ [][(pc = "respond" /\ pc' # "respond") =>
              (pc' = "accept" /\ last_write' \in { "ok", "failed" }
               /\ counters'.written = counters.written + 1)]_vars

\* C6 witness: the write of the first response failed and the second request
\* has been accepted and handled
C6_Witness ==
    /\ last_write = "failed"
    /\ counters.accepted = 2
    /\ counters.written = 1
    /\ pc = "respond"

\* the routing table of the claim
TableHandler(method, url) ==
    CASE method = "GET" /\ url = "/automation/health" -> "health"
      [] method = "POST" /\ url = "/automation/execute" -> "execute"
      [] method = "GET" /\ url = "/automation/screenshot" -> "screenshot"
      [] method = "OPTIONS" -> "cors"
      [] OTHER -> "not_found"

\* C7: routing is by exact (method, url) match and total: the three known
\* pairs reach health (200), the dispatcher and the screenshot pipeline,
\* OPTIONS with any path gives 204 with an empty body and the three CORS
\* headers, every other pair gives 404 {"error":"Not found"}, and exactly one
\* handler runs per request.
C7_Routing ==
    (pc \in (HandlerPcs \ {"route"}) \cup {"respond"}) =>
        LET h == TableHandler(request.method, request.url)
        IN  /\ fx.handlers = 1
            /\ fx.handler = h
            /\ pc \in { "ex_payload", "ex_window", "ex_eval", "ex_sleep", "ex_ack" }
                   => h = "execute"
            /\ pc \in { "ss_window", "ss_eval", "ss_sleep", "take_lock",
                        "take_read", "take_clear", "ss_result" }
                   => h = "screenshot"
            /\ (pc = "respond" /\ h = "health") =>
                   (response.status = 200 /\ response.json.t = "health"
                    /\ response.json.status = "ok")
            /\ (pc = "respond" /\ h = "cors") =>
                   (response.status = 204 /\ response.kind = "empty"
                    /\ response.bytes = << >>
                    /\ response.headers =
                         { << "Access-Control-Allow-Origin", "*" >>,
                           << "Access-Control-Allow-Methods", "GET, POST, OPTIONS" >>,
                           << "Access-Control-Allow-Headers", "Content-Type" >> })
            /\ (pc = "respond" /\ h = "not_found") =>
                   (response.status = 404 /\ response.kind = "json"
                    /\ response.json.t = "error"
                    /\ response.json.error = "Not found")

\* C7 witness: a known path with a suffix got 404
C7_Witness ==
    /\ pc = "respond"
    /\ request.method = "GET"
    /\ request.url = "/automation/health?x=1"
    /\ response.status = 404

(***************************************************************************)
(* Properties of handle_screenshot.                                        *)
(***************************************************************************)
\* value of a symbol of the base64 alphabet (RFC 4648, table 1), -1 otherwise
RefValue(c) ==
    IF c \in 65..90 THEN c - 65
    ELSE IF c \in 97..122 THEN c - 71
    ELSE IF c \in 48..57 THEN c + 4
    ELSE IF c = 43 THEN 62
    ELSE IF c = 47 THEN 63
    ELSE -1

\* s is base64 as RFC 4648 writes it: quantums of four symbols, the last one
\* ending in 0, 1 or 2 '='
RefValid(s) ==
    /\ Len(s) % 4 = 0
    /\ \A i \in 1..Len(s) :
           \/ RefValue(s[i]) >= 0
           \/ /\ s[i] = 61
              /\ i >= Len(s) - 1
              /\ \A j \in i..Len(s) : s[j] = 61

\* the bytes of one quantum a b c d
RefQuantum(a, b, c, d) ==
    LET n == RefValue(a) * 262144 + RefValue(b) * 4096
             + (IF c = 61 THEN 0 ELSE RefValue(c) * 64)
             + (IF d = 61 THEN 0 ELSE RefValue(d))
        b1 == n \div 65536
        b2 == (n \div 256) % 256
        b3 == n % 256
    IN  IF c = 61 THEN << b1 >>
        ELSE IF d = 61 THEN << b1, b2 >>
        ELSE << b1, b2, b3 >>

\* reference decoding of a valid s, quantum by quantum
RECURSIVE RefDecode(_)
RefDecode(s) ==
    IF Len(s) < 4 THEN << >>
    ELSE RefQuantum(s[1], s[2], s[3], s[4]) \o RefDecode(SubSeq(s, 5, Len(s)))

\* d is "data:image/png;base64," followed by valid base64
IsPngDataUrl(d) ==
    /\ Len(d) >= 22
    /\ SubSeq(d, 1, 22) = DATA_URL_PREFIX
    /\ RefValid(SubSeq(d, 23, Len(d)))

\* d starts with the literal prefix
HasPngPrefix(d) == Len(d) >= 22 /\ SubSeq(d, 1, 22) = DATA_URL_PREFIX

\* the screenshot request in hand has drained the buffer and built its response
Drained == pc = "respond" /\ fx.handler = "screenshot" /\ fx.takes = 1

\* position in hist of the latest take
LastTake == CHOOSE k \in Takes : \A j \in Takes : j <= k

\* C8: when the drained value is data:image/png;base64,<valid base64>, the
\* response is 200 with Content-Type image/png and the reference decoding of
\* the payload as body, and the take left the buffer empty.
C8_PngServed ==
    /\ (Drained /\ taken # None /\ IsPngDataUrl(taken[1].data)) =>
           /\ response.status = 200
           /\ << "Content-Type", "image/png" >> \in response.headers
           /\ response.kind = "bytes"
           /\ response.bytes = RefDecode(SubSeq(taken[1].data, 23, Len(taken[1].data)))
    /\ (hist # << >> /\ hist[Len(hist)].op = "take") => slot = None

\* C8 witness: QUI= was drained and served as the bytes 65 66
C8_Witness ==
    /\ Drained
    /\ taken # None
    /\ taken[1].data = PngAB
    /\ response.bytes = << 65, 66 >>
    /\ hist[Len(hist)].op = "take"

\* C9: the screenshot request gets 500 "Screenshot not available" whenever
\* the buffer is empty when drained, that is whenever no write was stored
\* between the previous take (or the start) and this take; never 200.
C9_EmptyUnavailable ==
    Drained =>
        /\ (taken = None) <=>
               (LastTake = 1 \/ hist[LastTake - 1].op = "take")
        /\ taken = None =>
               /\ response.status = 500
               /\ response.kind = "json"
               /\ response.json.error =
                      "Screenshot not available. Make sure html2canvas is loaded."

\* C9 witness: the second screenshot request in a row found the buffer empty
\* after the first one had drained a delivered value
C9_Witness ==
    /\ Drained
    /\ taken = None
    /\ response.status = 500
    /\ Len(hist) >= 3
    /\ LastTake >= 2 /\ hist[LastTake - 1].op = "take" /\ hist[LastTake - 1].id # 0

\* C10: a drained value without the prefix data:image/png;base64, produces no
\* image bytes: the response is the 500 "Screenshot not available" of the
\* empty buffer, and the value is gone: the buffer never holds again a value
\* a take has returned.
C10_WrongPrefixDropped ==
    /\ (Drained /\ taken # None /\ ~HasPngPrefix(taken[1].data)) =>
           /\ response = json_response_with_status(
                  ErrorJson("Screenshot not available. Make sure html2canvas is loaded.",
                            << >>), 500)
           /\ response.bytes = << >>
    /\ \A k \in Takes :
           hist[k].id # 0 => (slot = None \/ slot[1].id # hist[k].id)

\* C10 witness: a jpg data URL was drained and answered 500, and a second
\* screenshot request later found nothing to serve
C10_Witness ==
    /\ Drained
    /\ taken # None
    /\ taken[1].data = JpgA
    /\ response.status = 500
    /\ slot = None

(***************************************************************************)
(* base64_decode run on its own, one loop iteration per step               *)
(* (server.rs:238-267).                                                    *)
(***************************************************************************)
server_vars == << server, http_vars, web_vars, buf_vars, cb_vars >>

\* characters of the inputs: 'A' (0), 'V' (21), '/' (63), '=', ' ', '*' and
\* U+0141 (a letter outside ASCII whose low byte is that of 'A')
DecChars == { 65, 86, 47, 61, 32, 42, 321 }

DecInputs == UNION { [ 1..n -> DecChars ] : n \in 0..MaxDecLen }

DecodeInit ==
    /\ ServerInit
    /\ dir = NoDir
    /\ dec \in { [ NoDec EXCEPT !.phase = "called", !.input = i ] : i \in DecInputs }

\* lines 239-246: trim, drop the whitespace, set up output, buffer, bits
DecPrepare ==
    /\ dec.phase = "called"
    /\ dec' = [ dec EXCEPT !.phase = "loop",
                           !.chars = FilterWhitespace(Trim(dec.input)),
                           !.st = DecodeStart ]
    /\ UNCHANGED << server_vars, dir >>

\* lines 253-263: a character with a position in ALPHABET is accumulated
DecSymbol ==
    /\ dec.phase = "loop"
    /\ dec.chars # << >>
    /\ Head(dec.chars) # PAD_CHAR
    /\ AlphabetPosition(Head(dec.chars)) # -1
    /\ dec' = [ dec EXCEPT !.chars = Tail(dec.chars),
                           !.st = DecodeSymbol(dec.st, AlphabetPosition(Head(dec.chars))),
                           !.k = dec.k + 1 ]
    /\ UNCHANGED << server_vars, dir >>

\* lines 249-251: '=' ends the loop ...
DecBreak_Skip ==
    /\ dec.phase = "loop"
    /\ dec.chars # << >>
    /\ Head(dec.chars) = PAD_CHAR
    /\ dec' = [ dec EXCEPT !.chars = Tail(dec.chars) ]
    /\ UNCHANGED << server_vars, dir >>

DecBreak ==
    /\ dec.phase = "loop"
    /\ dec.chars # << >>
    /\ Head(dec.chars) = PAD_CHAR
    /\ dec' = [ dec EXCEPT !.phase = "done",
                           !.result = [ ok |-> TRUE, bytes |-> dec.st.output,
                                        bad |-> 0 ] ]
    /\ UNCHANGED << server_vars, dir >>

\* line 254: ... a character without a position returns Err naming it ...
DecError ==
    /\ dec.phase = "loop"
    /\ dec.chars # << >>
    /\ Head(dec.chars) # PAD_CHAR
    /\ AlphabetPosition(Head(dec.chars)) = -1
    /\ dec' = [ dec EXCEPT !.phase = "done",
                           !.result = [ ok |-> FALSE, bytes |-> << >>,
                                        bad |-> Head(dec.chars) ] ]
    /\ UNCHANGED << server_vars, dir >>

\* line 266: ... and the end of the input returns Ok(output)
DecEnd ==
    /\ dec.phase = "loop"
    /\ dec.chars = << >>
    /\ dec' = [ dec EXCEPT !.phase = "done",
                           !.result = [ ok |-> TRUE, bytes |-> dec.st.output,
                                        bad |-> 0 ] ]
    /\ UNCHANGED << server_vars, dir >>

DecodeNext ==
    \/ DecPrepare
    \/ DecSymbol
    \/ DecBreak
    \/ DecError
    \/ DecEnd

SpecDecode == DecodeInit /\ [][DecodeNext]_vars

(***************************************************************************)
(* Properties of base64_decode.                                            *)
(***************************************************************************)
\* s without the ASCII whitespace a transport may insert
RECURSIVE RefStrip(_)
RefStrip(s) ==
    IF s = << >> THEN << >>
    ELSE IF Head(s) \in { 9, 10, 12, 13, 32 } THEN RefStrip(Tail(s))
    ELSE << Head(s) >> \o RefStrip(Tail(s))

\* the run of base64_decode has returned
Decoded == dec.phase = "done"

\* C11: for every valid base64 text with 0, 1 or 2 trailing '=' (the empty
\* text included, whitespace inserted anywhere), base64_decode returns Ok
\* with the bytes of a reference RFC 4648 decoder.
C11_DecodesValid ==
    /\ (Decoded /\ RefValid(RefStrip(dec.input))) =>
           /\ dec.result.ok
           /\ dec.result.bytes = RefDecode(RefStrip(dec.input))
    /\ Decoded => dec.result = base64_decode(dec.input)

\* C11 witness: "AV /=" was decoded to the bytes 1 95
C11_Witness ==
    /\ Decoded
    /\ dec.input = << 65, 86, 32, 47, 61 >>
    /\ dec.result.ok
    /\ dec.result.bytes = << 1, 95 >>

\* c is neither a symbol of the alphabet, nor whitespace, nor '='
Foreign(c) == RefValue(c) = -1 /\ c # 61 /\ c \notin { 9, 10, 12, 13, 32 }

\* C12: for any input holding, at any position, a character that is not in
\* the alphabet, not whitespace and not '=', base64_decode returns an error
\* identifying such a character, never Ok; for every character value (code
\* points outside ASCII included) and every position (after a '=' included).
C12_RejectsForeign ==
    (Decoded /\ \E i \in 1..Len(dec.input) : Foreign(dec.input[i])) =>
        /\ ~dec.result.ok
        /\ \E i \in 1..Len(dec.input) :
               Foreign(dec.input[i]) /\ dec.result.bad = dec.input[i]

\* the part of s before its first '='
RECURSIVE BeforePad(_)
BeforePad(s) ==
    IF s = << >> \/ Head(s) = 61 THEN << >>
    ELSE << Head(s) >> \o BeforePad(Tail(s))

\* C16: base64_decode stops at the first '=' without an error, even
\* mid-stream: for every input the result is that of decoding the part of
\* the whitespace-stripped input before the first '=', so nothing after it
\* changes the bytes or whether an error is returned.
C16_StopsAtPad ==
    Decoded => dec.result = base64_decode(BeforePad(RefStrip(dec.input)))

\* C16 witness: "AV=*" gave Ok with the byte of "AV", the '*' after the '='
\* unseen
C16_Witness ==
    /\ Decoded
    /\ dec.input = << 65, 86, 61, 42 >>
    /\ dec.result.ok
    /\ dec.result.bytes = << 1 >>

\* C20: after each processed symbol bits_collected is 0, 2, 4 or 6 and the
\* buffer is below 2^bits_collected, so `buffer << 6` loses no bit of the
\* 32-bit buffer; after k symbols floor(6k/8) bytes have been emitted; bits
\* left over at the end of the input are dropped without an error.
C20_BitAccounting ==
    dec.phase \in { "loop", "done" } =>
        /\ dec.st.bits \in { 0, 2, 4, 6 }
        /\ dec.st.bits = (6 * dec.k) % 8
        /\ dec.st.buffer < Pow2(dec.st.bits)
        /\ dec.st.buffer < Pow2(26)
        /\ Len(dec.st.output) = (6 * dec.k) \div 8
        /\ (Decoded /\ dec.chars = << >>) =>
               (dec.result.ok /\ dec.result.bytes = dec.st.output)

\* C20 witness: after the three symbols of "///" two bytes are out and the
\* two bits left over were dropped with an Ok
C20_Witness ==
    /\ Decoded
    /\ dec.input = << 47, 47, 47 >>
    /\ dec.k = 3
    /\ dec.st.bits = 2
    /\ dec.st.buffer = 3
    /\ dec.result = [ ok |-> TRUE, bytes |-> << 255, 255 >>, bad |-> 0 ]

(***************************************************************************)
(* Properties of the handlers' steps.                                      *)
(***************************************************************************)
\* the handoff of the request in hand failed: window.eval returned Err
HandoffFailed == fx.evals = 1 /\ fx.handed = 0

\* C13: within one request handle_execute and handle_screenshot call
\* window.eval at most once and hand at most one directive to the web view;
\* a sleep is taken only after the directive was handed over; a failed
\* handoff is answered 500 at once, with no sleep and no take of the buffer.
C13_SingleHandoff ==
    /\ fx.lookups <= 1
    /\ fx.evals <= 1
    /\ fx.handed <= fx.evals
    /\ fx.sleeps <= fx.handed
    /\ fx.takes <= fx.sleeps
    /\ fx.evals = 1 => fx.handler \in { "execute", "screenshot" }
    /\ pc \in { "ex_sleep", "ss_sleep" } => fx.handed = 1
    /\ HandoffFailed =>
           /\ pc = "respond"
           /\ response.status = 500
           /\ fx.sleeps = 0
           /\ fx.takes = 0
           /\ lock # "http"

\* C13 witness: a screenshot request whose handoff failed has its 500 ready,
\* without having slept or drained a buffer that holds a value
C13_Witness ==
    /\ HandoffFailed
    /\ fx.handler = "screenshot"
    /\ response.status = 500
    /\ fx.sleeps = 0
    /\ slot # None

\* C14: no directive is handed to the web view and no 200 is built for an
\* execute request whose `command` is the empty string.
C14_CommandNonEmpty ==
    /\ (fx.handler = "execute" /\ GetCommand(request.body) = << "" >>) =>
           /\ fx.handed = 0
           /\ response.status # 200
    /\ \A i \in DOMAIN webq :
           webq[i].kind = "execute" => webq[i].command # ""

\* C15: once the bind has failed no request is accepted, no handler runs, no
\* directive is sent and the server never locks or drains the buffer, while
\* set_screenshot_data goes on storing: the buffer holds the latest write.
C15_BindFailureInert ==
    server = "bind_failed" =>
        /\ counters = [ accepted |-> 0, built |-> 0, written |-> 0 ]
        /\ pc = "accept"
        /\ request = NoRequest
        /\ response = NoResponse
        /\ fx = NoFx
        /\ webq = << >>
        /\ Takes = {}
        /\ lock # "http"
        /\ hist # << >> => (slot # None /\ slot[1].id = Len(hist))

\* C15 witness: after the failed bind two writes were stored and the second
\* is in the buffer
C15_Witness ==
    /\ server = "bind_failed"
    /\ Len(hist) = 2
    /\ slot # None
    /\ slot[1].id = 2
    /\ counters.accepted = 0

\* the screenshot request in hand got past the lookup and the handoff
PastHandoff ==
    fx.handler = "screenshot" /\ fx.window = "found" /\ fx.handed = 1

\* C18 (state part): one take per request and only after the sleep; a 200
\* carries the latest write stored before the take; a write stored after the
\* latest take is in the buffer, and the take that follows a write returns it
DrainDiscipline ==
    /\ fx.takes <= 1
    /\ fx.takes = 1 => fx.sleeps = 1
    /\ lock = "http" => (fx.sleeps = 1 /\ fx.takes = 0)
    /\ pc \in { "ss_window", "ss_eval", "ss_sleep" } =>
           (fx.takes = 0 /\ lock # "http")
    /\ pc = "ss_result" => fx.takes = 1
    /\ (pc = "respond" /\ PastHandoff) => fx.takes = 1
    /\ (Drained /\ response.status = 200) =>
           /\ taken # None
           /\ taken[1].id = hist[LastTake].id
           /\ taken[1].id = LatestWriteBefore(LastTake)
    /\ (hist # << >> /\ hist[Len(hist)].op = "set") =>
           (slot # None /\ slot[1].id = hist[Len(hist)].id)
    /\ \A k \in Takes :
           (k > 1 /\ hist[k - 1].op = "set") => hist[k].id = hist[k - 1].id

\* C18: the screenshot handler drains the buffer exactly once per request and
\* only after its sleep, and the buffer is emptied by no step before that
\* take (not at the dispatch of the capture directive); so a 200 carries the
\* last value written before the take, and a value delivered after a take, or
\* between requests, stays in the buffer until the next request's take
\* returns it.
C18_DrainAfterSleep ==
    /\ []DrainDiscipline
    /\ [][(slot # None /\ slot' = None) =>
              (pc = "take_clear" /\ fx.sleeps = 1 /\ fx'.takes = 1)]_vars

\* C18 witness: the first request drained an empty buffer, the delivery came
\* after its take, and the second request drained and served it
C18_Witness ==
    /\ Drained
    /\ response.status = 200
    /\ counters.accepted = 2
    /\ Len(hist) = 3
    /\ hist[1] = [ op |-> "take", id |-> 0 ]
    /\ hist[2] = [ op |-> "set", id |-> 1 ]
    /\ hist[3] = [ op |-> "take", id |-> 1 ]

\* a step that changes the buffer, or in which the server takes its mutex
BufferStep ==
    \/ slot' # slot
    \/ hist' # hist
    \/ lock' = "http" /\ lock # "http"

\* C19 (state part): a request on the health, execute, OPTIONS or 404 path,
\* and a screenshot request that found no window or whose handoff failed,
\* has not taken from the buffer and does not hold its mutex
OffDrainPath ==
    (fx.handler # "none" /\ ~PastHandoff) => (fx.takes = 0 /\ lock # "http")

\* C19: the buffer changes only in set_screenshot_data and in the take of a
\* screenshot request that got past the window lookup and the handoff; every
\* other path of the server leaves it as it was.
C19_BufferFrame ==
    /\ []OffDrainPath
    /\ [][BufferStep =>
              \/ cb_pc = "store" /\ cb_pc' = "idle" /\ slot' # None
              \/ /\ pc \in { "take_lock", "take_clear" }
                 /\ PastHandoff
                 /\ slot' \in { slot, None }]_vars

\* C19 witness: an execute request is acknowledged while the buffer still
\* holds the write stored before it was accepted
C19_Witness ==
    /\ pc = "respond"
    /\ fx.handler = "execute"
    /\ response.status = 200
    /\ slot # None
    /\ hist = << [ op |-> "set", id |-> 1 ] >>

(***************************************************************************)
(* The execute directive on its own (server.rs:122-157, lib.rs:47-66): the *)
(* script is built with format! from the command and the serialised args,  *)
(* and the web view parses and runs it.  Texts are sequences of code       *)
(* points.                                                                 *)
(***************************************************************************)
QUOTE     == 39
BACKSLASH == 92
NEWLINE   == 10

\* `execute('` : the text of the call up to the first `{}` hole (line 145)
CallOpen == << 101, 120, 101, 99, 117, 116, 101, 40, 39 >>
\* `', ` : the text between the two holes
CallMid == << 39, 44, 32 >>
\* `);` and the end of the line: the text after the second hole
CallClose == << 41, 59, 10 >>

\* the characters a command is made of: a, ', \ and a newline
DirChars == { 97, QUOTE, BACKSLASH, NEWLINE }

DirCommands == UNION { [ 1..n -> DirChars ] : n \in 0..MaxCmdLen }

\* `args` of the payload: absent, or the object {"a":1}
DirArgs == { << >>, << << 123, 34, 97, 34, 58, 49, 125 >> >> }

\* line 122 and 136: args absent becomes the empty object, then to_string
DirArgsJson(args) == IF args = << >> THEN << 123, 125 >> ELSE args[1]

\* lines 137-154: format! puts command and args_json in the holes as they are
FormatCall(cmd, json) ==
    CallOpen \o cmd \o CallMid \o json \o CallClose

DirectiveInit ==
    /\ ServerInit
    /\ dec = NoDec
    /\ dir \in { [ NoDir EXCEPT !.phase = "called", !.command = c, !.args = a ] :
                   c \in DirCommands, a \in DirArgs }

\* handle_execute builds the script and window.eval hands it over (line 157);
\* the web view starts reading the string literal after `execute(`
DirFormat ==
    /\ dir.phase = "called"
    /\ LET script == FormatCall(dir.command, DirArgsJson(dir.args))
       IN  dir' = [ dir EXCEPT !.phase = "literal",
                               !.script = script,
                               !.rest = SubSeq(script, Len(CallOpen) + 1,
                                               Len(script)) ]
    /\ UNCHANGED << dec, server_vars >>

\* an ordinary character of the literal
DirChar ==
    /\ dir.phase = "literal"
    /\ Head(dir.rest) \notin { QUOTE, BACKSLASH, NEWLINE }
    /\ dir' = [ dir EXCEPT !.lit = Append(@, Head(dir.rest)),
                           !.rest = Tail(@) ]
    /\ UNCHANGED << dec, server_vars >>

\* a backslash in the literal: with the newline after it a line continuation,
\* else (before ', \ or a character with no escape meaning) the character
\* after it stands for itself
DirEscape ==
    /\ dir.phase = "literal"
    /\ Head(dir.rest) = BACKSLASH
    /\ LET c == dir.rest[2]
       IN  dir' = [ dir EXCEPT !.lit = IF c = NEWLINE THEN @ ELSE Append(@, c),
                               !.rest = SubSeq(@, 3, Len(@)) ]
    /\ UNCHANGED << dec, server_vars >>

\* a line end inside the literal: the script is a SyntaxError and nothing of
\* it runs
DirNewline ==
    /\ dir.phase = "literal"
    /\ Head(dir.rest) = NEWLINE
    /\ dir' = [ dir EXCEPT !.phase = "done",
                           !.result = [ kind |-> "syntax_error",
                                        arg1 |-> << >>, arg2 |-> << >> ] ]
    /\ UNCHANGED << dec, server_vars >>

\* the quote that ends the literal: what follows is `, <args>);` and execute
\* is called, or it is text of the command, which (made of a, ', \ and
\* newline) cannot continue the argument list: a SyntaxError
DirClose ==
    /\ dir.phase = "literal"
    /\ Head(dir.rest) = QUOTE
    /\ dir' = [ dir EXCEPT
                  !.phase = "done",
                  !.rest = Tail(@),
                  !.result =
                      IF Tail(dir.rest) =
                             << 44, 32 >> \o DirArgsJson(dir.args) \o CallClose
                      THEN [ kind |-> "called", arg1 |-> dir.lit,
                             arg2 |-> DirArgsJson(dir.args) ]
                      ELSE [ kind |-> "syntax_error",
                             arg1 |-> << >>, arg2 |-> << >> ] ]
    /\ UNCHANGED << dec, server_vars >>

DirectiveNext ==
    \/ DirFormat
    \/ DirChar
    \/ DirEscape
    \/ DirNewline
    \/ DirClose

SpecDirective == DirectiveInit /\ [][DirectiveNext]_vars

\* C17: for every command string and args value the directive, run where the
\* capability is installed, calls execute once with the request's command as
\* first argument and the request's args (the empty object when absent) as
\* second; also for commands holding a single quote, a backslash or a
\* newline.
C17_DirectiveCallsExecute ==
    dir.phase = "done" =>
        dir.result = [ kind |-> "called",
                       arg1 |-> dir.command,
                       arg2 |-> IF dir.args = << >> THEN << 123, 125 >>
                                ELSE dir.args[1] ]

====
